---- MODULE Spec2Model ----
(***************************************************************************)
(* The polling controller of the supplement-research page (HomeContent),   *)
(* the research form that feeds it (SupplementResearchForm) and the        *)
(* creation route they talk to.                                            *)
(*                                                                         *)
(* One action is one run-to-completion piece of a handler: the event loop  *)
(* is single threaded, so a handler runs from its start, or from the       *)
(* resumption after an await, to its next await without interleaving.      *)
(* A request is answered by the server when it is sent (the answer is a    *)
(* function of the server's state at that moment); the answer then stays   *)
(* in flight for an arbitrary time, and answers are delivered in any       *)
(* order, so status checks may overlap and an old answer may arrive after  *)
(* a newer one.                                                            *)
(***************************************************************************)
EXTENDS Integers, FiniteSets, Sequences, TLC

(* ------------------------------ bounds --------------------------------- *)
\* form submissions that send a creation request (also the number of task ids)
MaxCreates == 2
\* status requests sent over a run
MaxPolls == 3
\* cancel requests sent over a run
MaxCancels == 1
\* total_steps of a task's progress payload
MaxStep == 2
\* initiateOAuthFlow calls over a run
MaxFlows == 2
\* the largest total_steps of a progress payload
MaxTotal == 40

(* --------------------------- program constants ------------------------- *)
\* setInterval(..., 10000)
PollIntervalMs == 10000

VARIABLES
  isSelfHosted,        \* isSelfHostedMode(), fixed per deployment
  mounted,             \* HomeContent is mounted
  analysisResult,      \* useState: the exposed snapshot
  isAnalyzing,         \* useState
  showSignInModal,     \* useState
  user,                \* useState: in-memory user
  currentTaskId,       \* useState
  isCancelling,        \* useState
  cancelledRef,        \* useRef: the cancellation flag
  pollIntervalRef,     \* useRef: the timer handle
  timers,              \* the live interval timers of the page
  loading,             \* SupplementResearchForm useState
  error,               \* SupplementResearchForm useState
  valyu_access_token,  \* localStorage key
  valyu_user,          \* localStorage key
  net,                 \* answers in flight
  tasks,               \* the research service: task id -> task state
  nCreates, nPolls, nCancels,  \* requests sent so far
  cancelRequested,     \* history: tasks handleCancel was invoked for
  firstPoll,           \* history: what sent each task's first status request
  terminalApplied,     \* history: tasks whose terminal status was applied
  interrupted,         \* history: a cancel, reset, AUTH_REQUIRED or unmount occurred
  last,                \* history: the page's latest step
  supplementName,      \* useState: the form's supplement name
  researchFocus,       \* useState: the form's focus areas
  showAuthSuccess,     \* useState
  searchParams,        \* the page URL's auth parameter
  location,            \* where the browser is
  env,                 \* process.env: the OAuth configuration
  oauth_form_values,   \* localStorage key
  oauth_code_verifier, \* sessionStorage key
  oauth_state,         \* sessionStorage key
  flows,               \* initiateOAuthFlow calls awaiting the code challenge
  nFlows,              \* initiateOAuthFlow calls so far
  returned,            \* what the latest restoreFormValuesAfterOAuth returned
  pending,             \* history: the form values saved and not yet restored
  request,             \* the creation route: the request being handled
  upstream,            \* the creation route: what the upstream call does
  response,            \* the creation route: the answer
  progress,            \* ResearchResults: the progress payload of its result
  percentShown         \* ResearchResults: the percentage it displays

vars == << isSelfHosted, mounted, analysisResult, isAnalyzing, showSignInModal,
           user, currentTaskId, isCancelling, cancelledRef, pollIntervalRef,
           timers, loading, error, valyu_access_token, valyu_user, net, tasks,
           nCreates, nPolls, nCancels, cancelRequested, firstPoll,
           terminalApplied, interrupted, last, supplementName, researchFocus,
           showAuthSuccess, searchParams, location, env, oauth_form_values,
           oauth_code_verifier, oauth_state, flows, nFlows, returned, pending,
           request, upstream, response, progress, percentShown >>

\* the variables of the results view
viewVars == << progress, percentShown >>

\* the variables of the creation route
routeVars == << request, upstream, response >>

\* the variables of the sign-in flow and of the OAuth library
oauthVars == << showAuthSuccess, searchParams, location, env, oauth_form_values,
               oauth_code_verifier, oauth_state, flows, nFlows, returned,
               pending >>

\* the form inputs held by the page
formVars == << supplementName, researchFocus >>

\* the page's variables, which the OAuth library leaves alone
pageVars ==
  << isSelfHosted, mounted, analysisResult, isAnalyzing, showSignInModal,
     user, currentTaskId, isCancelling, cancelledRef, pollIntervalRef, timers,
     loading, error, valyu_access_token, valyu_user, net, tasks, nCreates,
     nPolls, nCancels, cancelRequested, firstPoll, terminalApplied,
     interrupted >>

(* ------------------------------ values --------------------------------- *)
TaskIds == 1..MaxCreates
NoTask == 0
Null == "null"
\* a string that is not there (undefined)
Undefined == "undefined"
\* a request without an Authorization header
NoHeader == [scheme |-> "", token |-> ""]
\* Authorization: Bearer <token>
Bearer(token) == [scheme |-> "Bearer", token |-> token]
Token == "token"
UserProfile == "user"

\* interval timers: one is created per handleTaskCreated call, so a timer is
\* named by the task whose checks it fires
Timer(t) == [task |-> t, period |-> PollIntervalMs]
NoTimer == [task |-> NoTask, period |-> 0]

\* the snapshot before any response has been applied (useState(null))
NoResult == [task |-> NoTask, status |-> "none", step |-> 0]

\* data.status === 'completed' || 'failed' || 'cancelled'
IsTerminalStatus(s) == s \in {"completed", "failed", "cancelled"}

\* result.output: the report, populated only when the task completed
HasOutput(r) == r.status = "completed"

\* const isHomepage = !isAnalyzing && !analysisResult
isHomepage == ~isAnalyzing /\ analysisResult = NoResult

\* a step's record in the history variable
Step(op, t, res) == [op |-> op, task |-> t, res |-> res]

\* an answer in flight; `auth` is the Authorization header its request carried
Msg(k, id, t, res, data) ==
  [k |-> k, id |-> id, task |-> t, res |-> res, data |-> data,
   orphan |-> FALSE, auth |-> NoHeader]

(* ------------------------- the research service ------------------------ *)
NotCreated == [status |-> "none", step |-> 0]

Created == {t \in TaskIds : tasks[t].status # "none"}

\* the task bundle the status endpoint reports for task t
Snapshot(t) == [task |-> t, status |-> tasks[t].status, step |-> tasks[t].step]

\* the service works on a task: queued, running step by step, then completed;
\* a task that is not finished may fail
ServerAdvance(t) ==
  /\ t \in Created
  /\ ~IsTerminalStatus(tasks[t].status)
  /\ \E nxt \in {"go", "fail"} :
       tasks' = [tasks EXCEPT ![t] =
         IF nxt = "fail" THEN [status |-> "failed", step |-> 0]
         ELSE IF @.status = "queued" THEN [status |-> "running", step |-> 1]
         ELSE IF @.step < MaxStep THEN [status |-> "running", step |-> @.step + 1]
         ELSE [status |-> "completed", step |-> MaxStep]]
  /\ UNCHANGED << viewVars, routeVars, oauthVars >>
  /\ UNCHANGED << formVars, interrupted >>
  /\ UNCHANGED << isSelfHosted, mounted, analysisResult, isAnalyzing,
                  showSignInModal, user, currentTaskId, isCancelling,
                  cancelledRef, pollIntervalRef, timers, loading, error,
                  valyu_access_token, valyu_user, net, nCreates, nPolls,
                  nCancels, cancelRequested, firstPoll, terminalApplied, last >>

(* ------------------------------ requests ------------------------------- *)
\* a getAuthHeaders that does not look at the mode
getAuthHeaders_IgnoresMode ==
  IF valyu_access_token # Null THEN Bearer(valyu_access_token) ELSE NoHeader

\* getAuthHeaders: the Authorization header of a status or cancel request
getAuthHeaders ==
  IF ~isSelfHosted /\ valyu_access_token # Null
    THEN Bearer(valyu_access_token) ELSE NoHeader

\* the answers the status endpoint can give for task t: the task bundle, a
\* non-OK answer with error AUTH_REQUIRED (hosted mode), a non-OK answer with
\* another error, or no usable answer at all (fetch or response.json() throws)
StatusAnswers(t) ==
  {[res |-> "ok", data |-> Snapshot(t)],
   [res |-> "err", data |-> NoResult],
   [res |-> "throw", data |-> NoResult]}
  \cup (IF isSelfHosted THEN {} ELSE {[res |-> "auth", data |-> NoResult]})

(* --------------------------- the creation route ------------------------ *)
\* texts are sequences of words; String.includes looks for a word in a text
includes(text, word) == \E i \in 1..Len(text) : text[i] = word

\* the error texts an upstream failure may carry
ErrorTexts ==
  {<< "invalid_token" >>, << "token", "expired" >>, << "unauthorized" >>,
   << "quota", "exceeded" >>, << "AUTH_REQUIRED" >>}

\* the Authorization headers a creation request may carry: none, a bearer
\* token, a bearer scheme with an empty token, another scheme
AuthorizationHeaders ==
  {NoHeader, Bearer(Token), Bearer(""), [scheme |-> "Basic", token |-> Token]}

\* the bodies a creation request may carry: not JSON, JSON without a
\* supplement name, JSON with an empty one, JSON with one
Bodies ==
  {[json |-> FALSE, supplementName |-> ""],
   [json |-> TRUE, supplementName |-> Undefined],
   [json |-> TRUE, supplementName |-> ""],
   [json |-> TRUE, supplementName |-> "collagen"]}

\* a token extraction that accepts any scheme
BearerToken_AnyScheme(authHeader) ==
  IF authHeader.scheme # "" THEN authHeader.token ELSE Undefined

\* authHeader?.startsWith('Bearer ') ? authHeader.slice(7) : undefined
BearerToken(authHeader) ==
  IF authHeader.scheme = "Bearer" THEN authHeader.token ELSE Undefined

\* a presence test that takes the empty string for a value
Truthy_EmptyOk(v) == v # Undefined

\* JavaScript truthiness of a string that may be undefined
Truthy(v) == v # Undefined /\ v # ""

\* a supplement name check that only looks for the field
NameMissing_OnlyUndefined(body) == body.supplementName = Undefined

\* POST: if (!supplementName)
NameMissing(body) == ~Truthy(body.supplementName)

\* what the OAuth proxy can do with the forwarded call: answer OK with a task
\* (with or without an id), answer not OK with any status and error payload,
\* or fail to answer (fetch throws)
ProxyOutcomes ==
  {[kind |-> "ok", status |-> 200, error |-> << >>, id |-> i] :
     i \in {"task", ""}}
  \cup {[kind |-> "notOk", status |-> st, error |-> e, id |-> ""] :
          st \in {400, 401, 403, 500}, e \in ErrorTexts \cup {<< >>}}
  \cup {[kind |-> "throw", status |-> 0, error |-> << "fetch", "failed" >>,
         id |-> ""]}

\* what the SDK's deepresearch.create can do: return a task (with or without
\* an id) or throw
SdkOutcomes ==
  {[kind |-> "ok", status |-> 200, error |-> << >>, id |-> i] :
     i \in {"task", ""}}
  \cup {[kind |-> "throw", status |-> 0, error |-> e, id |-> ""] :
          e \in ErrorTexts}

\* what the upstream creation call can do, by the channel the mode selects
UpstreamOutcomes == IF isSelfHosted THEN SdkOutcomes ELSE ProxyOutcomes

\* callValyuDeepResearch: the task it returns or the error it throws when the
\* upstream call ends as `up`
callValyuDeepResearch(valyuAccessToken, up) ==
  IF Truthy(valyuAccessToken)
    THEN IF up.kind = "throw"
           THEN [threw |-> TRUE, isAuthError |-> FALSE, message |-> up.error,
                 id |-> ""]
         ELSE IF up.kind = "notOk"
           THEN IF \/ up.status = 401 \/ up.status = 403
                   \/ includes(up.error, "invalid_token")
                   \/ includes(up.error, "expired")
                   \/ includes(up.error, "unauthorized")
                  THEN [threw |-> TRUE, isAuthError |-> TRUE,
                        message |-> << "AUTH_REQUIRED" >>, id |-> ""]
                  ELSE [threw |-> TRUE, isAuthError |-> FALSE,
                        message |-> IF up.error # << >> THEN up.error
                                    ELSE << "Proxy request failed:",
                                            ToString(up.status) >>,
                        id |-> ""]
         ELSE [threw |-> FALSE, isAuthError |-> FALSE, message |-> << >>,
               id |-> up.id]
    ELSE IF up.kind = "throw"
           THEN [threw |-> TRUE, isAuthError |-> FALSE, message |-> up.error,
                 id |-> ""]
         ELSE [threw |-> FALSE, isAuthError |-> FALSE, message |-> << >>,
               id |-> up.id]

\* an answer of the route; `called` and `forwarded` record whether the
\* upstream call was made and with which token
Answer(status, err, id, called, forwarded) ==
  [status |-> status, error |-> err, deepresearch_id |-> id,
   success |-> (status = 200),
   taskStatus |-> (IF status = 200 THEN "queued" ELSE Undefined),
   called |-> called, forwarded |-> forwarded]

\* a catch block that reports every error as a 500
Caught_AlwaysGeneric(err, called, forwarded) ==
  Answer(500, << "Failed to perform deep research:" >> \o err.message,
         Undefined, called, forwarded)

\* the route's catch block: AUTH_REQUIRED for an auth error, else a 500
\* whose text carries the error's message
Caught(err, called, forwarded) ==
  IF err.isAuthError \/ err.message = << "AUTH_REQUIRED" >>
    THEN Answer(401, << "AUTH_REQUIRED" >>, Undefined, called, forwarded)
    ELSE Answer(500, << "Failed to perform deep research:" >> \o err.message,
                Undefined, called, forwarded)

\* POST /api/supplement-research: the answer to request `req` when the
\* upstream call, if it is made, ends as `up`
POST(req, up) ==
  LET valyuAccessToken == BearerToken(req.authorization)
      forwarded == IF isSelfHosted THEN Undefined ELSE valyuAccessToken
      task == callValyuDeepResearch(forwarded, up)
  IN IF ~isSelfHosted /\ ~Truthy(valyuAccessToken)
       THEN Answer(401, << "AUTH_REQUIRED" >>, Undefined, FALSE, Undefined)
     ELSE IF ~req.body.json
       THEN Caught([isAuthError |-> FALSE, message |-> << "Unexpected token" >>],
                   FALSE, Undefined)
     ELSE IF NameMissing(req.body)
       THEN Answer(400, << "Supplement name is required" >>, Undefined,
                   FALSE, Undefined)
     ELSE IF task.threw THEN Caught(task, TRUE, forwarded)
     ELSE IF ~Truthy(task.id)
       THEN Caught([isAuthError |-> FALSE,
                    message |-> << "Failed to create deep research task" >>],
                   TRUE, forwarded)
     ELSE Answer(200, << >>, task.id, TRUE, forwarded)

\* how the page's handlers read an answer: response.ok, data.error
ResultOf(a) ==
  IF a.status = 200 THEN "ok"
  ELSE IF a.error = << "AUTH_REQUIRED" >> THEN "auth"
  ELSE "err"

(* --------------------------- the OAuth library ------------------------- *)
\* form values: an object with two optional fields, or null
Values(name, focus) ==
  [isNull |-> FALSE, supplementName |-> name, researchFocus |-> focus]
NullValues ==
  [isNull |-> TRUE, supplementName |-> Undefined, researchFocus |-> Undefined]

\* a localStorage item holding JSON text, or no item; a JSON text is the
\* sequence of its << key, value >> members
Item(text) == [present |-> TRUE, text |-> text]
NoItem == [present |-> FALSE, text |-> << >>]

\* a stored text that is not JSON
Corrupt == << << "{", "" >> >>

\* JSON.stringify of form values: undefined fields are left out
JSONstringify(values) ==
  (IF values.supplementName # Undefined
     THEN << << "supplementName", values.supplementName >> >> ELSE << >>)
  \o (IF values.researchFocus # Undefined
        THEN << << "researchFocus", values.researchFocus >> >> ELSE << >>)

\* JSON.parse succeeds on the texts JSON.stringify writes
JSONparses(text) ==
  \A i \in 1..Len(text) : text[i][1] \in {"supplementName", "researchFocus"}

\* the value of a member of a parsed object, undefined when it has none
Member(text, key) ==
  IF \E i \in 1..Len(text) : text[i][1] = key
    THEN text[CHOOSE i \in 1..Len(text) : text[i][1] = key][2]
    ELSE Undefined

JSONparse(text) ==
  Values(Member(text, "supplementName"), Member(text, "researchFocus"))

\* the browser is on the page, or on the authorization endpoint with the
\* query parameters of the redirect
AtPage ==
  [at |-> "page", client_id |-> Undefined, redirect_uri |-> Undefined,
   code_challenge |-> << >>, state |-> Undefined]
AuthorizeUrl(challenge, state) ==
  [at |-> "authorize", client_id |-> env.client_id,
   redirect_uri |-> env.redirect_uri, code_challenge |-> challenge,
   state |-> state]

\* the values generateCodeVerifier may return
Verifiers == {"r1", "r2"}

\* generateCodeChallenge: base64url(SHA-256(verifier))
generateCodeChallenge(verifier) == << "S256", verifier >>

\* the OAuth configuration of a deployment with all three variables set
Configured == [client_id |-> "id", auth_url |-> "url", redirect_uri |-> "uri"]

\* the configurations a deployment may have: each variable unset, empty or set
Envs ==
  [client_id : {Undefined, "", "id"}, auth_url : {Undefined, "", "url"},
   redirect_uri : {Undefined, "", "uri"}]

\* an isOAuthConfigured that does not look at the redirect URI
isOAuthConfigured_IgnoresRedirect ==
  Truthy(env.client_id) /\ Truthy(env.auth_url)

\* isOAuthConfigured
isOAuthConfigured ==
  Truthy(env.client_id) /\ Truthy(env.auth_url) /\ Truthy(env.redirect_uri)

\* saveFormValuesBeforeOAuth(values)
saveFormValuesBeforeOAuth(values) ==
  /\ oauth_form_values' = Item(JSONstringify(values))
  /\ pending' = values

\* a restoreFormValuesAfterOAuth that leaves the stored entry in place
restoreF_KeepsEntry(item) ==
  IF item.present
    THEN [item |-> item,
          returns |-> IF JSONparses(item.text) THEN JSONparse(item.text)
                      ELSE NullValues]
    ELSE [item |-> item, returns |-> NullValues]

\* restoreFormValuesAfterOAuth, as a function of the stored item: the item
\* it leaves and the value it returns
restoreF(item) ==
  IF item.present
    THEN [item |-> NoItem,
          returns |-> IF JSONparses(item.text) THEN JSONparse(item.text)
                      ELSE NullValues]
    ELSE [item |-> item, returns |-> NullValues]

\* restoreFormValuesAfterOAuth()
restoreFormValuesAfterOAuth ==
  /\ oauth_form_values' = restoreF(oauth_form_values).item
  /\ returned' = restoreF(oauth_form_values).returns
  /\ pending' = IF restoreF(oauth_form_values).item = NoItem
                  THEN NullValues ELSE pending

\* initiateOAuthFlow(formValues) up to its await: nothing when OAuth is not
\* configured; else the form values are saved, the code verifier is generated
\* and the code challenge is awaited
initiateOAuthFlow(formValues) ==
  /\ nFlows' = nFlows + 1
  /\ IF ~isOAuthConfigured
       THEN UNCHANGED << oauth_form_values, pending, flows >>
       ELSE /\ IF ~formValues.isNull
                 THEN saveFormValuesBeforeOAuth(formValues)
                 ELSE UNCHANGED << oauth_form_values, pending >>
            /\ \E codeVerifier \in Verifiers :
                 flows' = flows \cup
                   {[id |-> nFlows + 1, codeVerifier |-> codeVerifier]}
  /\ UNCHANGED << oauth_code_verifier, oauth_state, location >>

\* an initiateOAuthFlow that sends a state it does not store
initiateOAuthFlowRedirects_StateNotStored(f) ==
  /\ f \in flows
  /\ flows' = flows \ {f}
  /\ oauth_code_verifier' = f.codeVerifier
  /\ \E state \in Verifiers :
       /\ oauth_state' = oauth_state
       /\ location' = AuthorizeUrl(generateCodeChallenge(f.codeVerifier), state)
  /\ UNCHANGED << oauth_form_values, pending, nFlows >>

\* initiateOAuthFlow after the await: the verifier and a fresh state are put
\* in sessionStorage and the browser is sent to the authorization endpoint
initiateOAuthFlowRedirects(f) ==
  /\ f \in flows
  /\ flows' = flows \ {f}
  /\ oauth_code_verifier' = f.codeVerifier
  /\ \E state \in Verifiers :
       /\ oauth_state' = state
       /\ location' = AuthorizeUrl(generateCodeChallenge(f.codeVerifier), state)
  /\ UNCHANGED << oauth_form_values, pending, nFlows >>

(* --------------------------- the form's render ------------------------- *)
\* The form is rendered only on the homepage of a mounted page. When it is
\* unmounted its state is dropped and the creation requests it has in flight
\* lose their form (their continuation still runs); a newly mounted form
\* starts with loading = false and error = ''.
FormShown == mounted /\ isHomepage
FormShownNext == mounted' /\ ~isAnalyzing' /\ analysisResult' = NoResult

Orphaned(n) ==
  {IF m.k = "create" THEN [m EXCEPT !.orphan = TRUE] ELSE m : m \in n}

Render(l, e, n) ==
  /\ loading' = (IF FormShown /\ FormShownNext THEN l ELSE FALSE)
  /\ error' = (IF FormShown /\ FormShownNext THEN e ELSE "")
  /\ net' = (IF FormShown /\ ~FormShownNext THEN Orphaned(n) ELSE n)

(* ------------------------- the polling controller ---------------------- *)
\* the fields handleReset works on
Controller ==
  [pollIntervalRef |-> pollIntervalRef, timers |-> timers,
   analysisResult |-> analysisResult, isAnalyzing |-> isAnalyzing,
   currentTaskId |-> currentTaskId, isCancelling |-> isCancelling,
   supplementName |-> supplementName, researchFocus |-> researchFocus]

\* if (pollIntervalRef.current) { clearInterval(...); pollIntervalRef.current = null }
ClearedTimers(ref, tms) == IF ref # NoTimer THEN tms \ {ref} ELSE tms

\* a handleReset that forgets setCurrentTaskId(null)
handleResetF_KeepsTaskId(c) ==
  [pollIntervalRef |-> NoTimer,
   timers |-> ClearedTimers(c.pollIntervalRef, c.timers),
   analysisResult |-> NoResult,
   isAnalyzing |-> FALSE,
   currentTaskId |-> c.currentTaskId,
   isCancelling |-> FALSE,
   supplementName |-> "",
   researchFocus |-> ""]

\* handleReset, as a function of the controller's fields
handleResetF(c) ==
  [pollIntervalRef |-> NoTimer,
   timers |-> ClearedTimers(c.pollIntervalRef, c.timers),
   analysisResult |-> NoResult,
   isAnalyzing |-> FALSE,
   currentTaskId |-> NoTask,
   isCancelling |-> FALSE,
   supplementName |-> "",
   researchFocus |-> ""]

handleReset ==
  LET r == handleResetF(Controller) IN
  /\ pollIntervalRef' = r.pollIntervalRef
  /\ timers' = r.timers
  /\ analysisResult' = r.analysisResult
  /\ isAnalyzing' = r.isAnalyzing
  /\ currentTaskId' = r.currentTaskId
  /\ isCancelling' = r.isCancelling
  /\ supplementName' = r.supplementName
  /\ researchFocus' = r.researchFocus

\* a pollStatus without the first look at the flag
CancelledBeforeSend_Never == FALSE

\* pollStatus: "Don't poll if cancelled"
CancelledBeforeSend == cancelledRef

\* a pollStatus without the second look at the flag
CancelledDuringFetch_Never == FALSE

\* pollStatus: "Ignore results if cancelled during fetch"
CancelledDuringFetch == cancelledRef

\* pollStatus(taskId) up to its first await: nothing when the flag is set, a
\* status request (sent and answered) otherwise. The result is the set of
\* answers put in flight, one choice per possible answer.
PollMsgs(t) ==
  {[Msg("status", nPolls + 1, t, a.res, a.data) EXCEPT !.auth = getAuthHeaders] :
     a \in StatusAnswers(t)}

pollStatusSends(t, cancelled) ==
  IF cancelled THEN {{}} ELSE {{p} : p \in PollMsgs(t)}

\* history: the first status request of task t is recorded with its sender
FirstPollBy(t, n, by) ==
  IF n # {} /\ firstPoll[t] = "none" THEN [firstPoll EXCEPT ![t] = by]
  ELSE firstPoll

\* a handleTaskCreated that does not reset the cancellation flag
handleTaskCreated_KeepsFlag(t, rest) ==
  /\ mounted' = mounted
  /\ cancelledRef' = cancelledRef
  /\ isAnalyzing' = TRUE
  /\ currentTaskId' = t
  /\ analysisResult' = analysisResult
  /\ isCancelling' = isCancelling
  /\ \E n \in pollStatusSends(t, cancelledRef) :
       /\ nPolls + Cardinality(n) <= MaxPolls
       /\ nPolls' = nPolls + Cardinality(n)
       /\ firstPoll' = FirstPollBy(t, n, "immediate")
       /\ Render(loading, error, rest \cup n)
  /\ pollIntervalRef' = Timer(t)
  /\ timers' = timers \cup {Timer(t)}

\* handleTaskCreated(taskId); `rest` is what stays in flight
handleTaskCreated(t, rest) ==
  /\ mounted' = mounted
  /\ cancelledRef' = FALSE
  /\ isAnalyzing' = TRUE
  /\ currentTaskId' = t
  /\ analysisResult' = analysisResult
  /\ isCancelling' = isCancelling
  /\ \E n \in pollStatusSends(t, FALSE) :
       /\ nPolls + Cardinality(n) <= MaxPolls
       /\ nPolls' = nPolls + Cardinality(n)
       /\ firstPoll' = FirstPollBy(t, n, "immediate")
       /\ Render(loading, error, rest \cup n)
  /\ pollIntervalRef' = Timer(t)
  /\ timers' = timers \cup {Timer(t)}

(* ------------------------------- the form ------------------------------ *)
\* a sign-in gate that does not look at the mode
SignInRequired_IgnoresMode == user = Null

\* handleSubmit: if (!isSelfHosted && !user)
SignInRequired == ~isSelfHosted /\ user = Null

\* handleSubmit, hosted mode without a user: onSignInClick() and return
SubmitSignIn ==
  /\ FormShown /\ ~loading
  /\ supplementName # ""
  /\ SignInRequired
  /\ error' = ""
  /\ showSignInModal' = TRUE
  /\ last' = Step("submitSignIn", NoTask, "")
  /\ UNCHANGED << viewVars, routeVars, oauthVars >>
  /\ UNCHANGED << formVars, interrupted >>
  /\ UNCHANGED << isSelfHosted, mounted, analysisResult, isAnalyzing, user,
                  currentTaskId, isCancelling, cancelledRef, pollIntervalRef,
                  timers, loading, valyu_access_token, valyu_user, net, tasks,
                  nCreates, nPolls, nCancels, cancelRequested,
                  firstPoll, terminalApplied >>

\* handleSubmit up to its first await: the creation request is sent and
\* answered; the fetch itself may fail (no answer, nothing created)
SubmitRequest ==
  /\ FormShown /\ ~loading
  /\ supplementName # ""
  /\ ~SignInRequired
  /\ nCreates < MaxCreates
  /\ nCreates' = nCreates + 1
  /\ loading' = TRUE
  /\ error' = ""
  /\ LET id == nCreates + 1
         accessToken == IF ~isSelfHosted THEN valyu_access_token ELSE Null
         authorization == IF ~isSelfHosted /\ accessToken # Null
                            THEN Bearer(accessToken) ELSE NoHeader
         req == [authorization |-> authorization,
                 body |-> [json |-> TRUE, supplementName |-> supplementName]]
     IN \/ \E up \in UpstreamOutcomes :
             LET a == ResultOf(POST(req, up)) IN
             /\ tasks' = IF a = "ok"
                           THEN [tasks EXCEPT ![id] =
                                   [status |-> "queued", step |-> 0]]
                           ELSE tasks
             /\ net' = net \cup
                  {[Msg("create", id, IF a = "ok" THEN id ELSE NoTask,
                        a, NoResult) EXCEPT !.auth = authorization]}
        \/ /\ tasks' = tasks
           /\ net' = net \cup
                {[Msg("create", id, NoTask, "throw", NoResult)
                    EXCEPT !.auth = authorization]}
  /\ last' = Step("submitRequest", NoTask, "")
  /\ UNCHANGED << viewVars, routeVars, oauthVars >>
  /\ UNCHANGED << formVars, interrupted >>
  /\ UNCHANGED << isSelfHosted, mounted, analysisResult, isAnalyzing,
                  showSignInModal, user, currentTaskId, isCancelling,
                  cancelledRef, pollIntervalRef, timers, valyu_access_token,
                  valyu_user, nPolls, nCancels, cancelRequested,
                  firstPoll, terminalApplied >>

\* handleSubmit after the answer: response.ok, onTaskCreated(data.deepresearch_id)
SubmitCreated(m) ==
  /\ m \in net /\ m.k = "create" /\ m.res = "ok"
  /\ handleTaskCreated(m.task, net \ {m})
  /\ last' = Step("handleTaskCreated", m.task, m.res)
  /\ UNCHANGED << viewVars, routeVars, oauthVars >>
  /\ UNCHANGED << formVars, interrupted >>
  /\ UNCHANGED << isSelfHosted, showSignInModal, user,
                  valyu_access_token, valyu_user, tasks, nCreates, nCancels,
                  cancelRequested, terminalApplied >>

\* handleSubmit after the answer: !response.ok with error AUTH_REQUIRED
SubmitAuthRequired(m) ==
  /\ m \in net /\ m.k = "create" /\ m.res = "auth"
  /\ valyu_access_token' = Null
  /\ valyu_user' = Null
  /\ showSignInModal' = TRUE
  /\ UNCHANGED << analysisResult, isAnalyzing, mounted >>
  /\ Render(IF m.orphan THEN loading ELSE FALSE, error, net \ {m})
  /\ last' = Step("submitAuthRequired", NoTask, m.res)
  /\ UNCHANGED << viewVars, routeVars, oauthVars >>
  /\ interrupted' = TRUE
  /\ UNCHANGED << formVars >>
  /\ UNCHANGED << isSelfHosted, user, currentTaskId, isCancelling,
                  cancelledRef, pollIntervalRef, timers, tasks, nCreates,
                  nPolls, nCancels, cancelRequested,
                  firstPoll, terminalApplied >>

\* handleSubmit after the answer: another error, or the fetch threw (catch)
SubmitFailed(m) ==
  /\ m \in net /\ m.k = "create" /\ m.res \in {"err", "throw"}
  /\ UNCHANGED << analysisResult, isAnalyzing, mounted >>
  /\ Render(IF m.orphan THEN loading ELSE FALSE,
            IF m.orphan THEN error ELSE "message", net \ {m})
  /\ last' = Step("submitFailed", NoTask, m.res)
  /\ UNCHANGED << viewVars, routeVars, oauthVars >>
  /\ UNCHANGED << formVars, interrupted >>
  /\ UNCHANGED << isSelfHosted, showSignInModal, user, currentTaskId,
                  isCancelling, cancelledRef, pollIntervalRef, timers,
                  valyu_access_token, valyu_user, tasks, nCreates, nPolls,
                  nCancels, cancelRequested,
                  firstPoll, terminalApplied >>

(* --------------------------- timer and polls --------------------------- *)
\* a tick of a live interval timer: pollStatus(taskId) up to its first await
Tick(tm) ==
  /\ tm \in timers
  /\ \E n \in pollStatusSends(tm.task, CancelledBeforeSend) :
       /\ nPolls + Cardinality(n) <= MaxPolls
       /\ nPolls' = nPolls + Cardinality(n)
       /\ net' = net \cup n
       /\ firstPoll' = FirstPollBy(tm.task, n, "tick")
       /\ last' = Step(IF n = {} THEN "tickSkipped" ELSE "tick", tm.task, "")
  /\ UNCHANGED << viewVars, routeVars, oauthVars >>
  /\ UNCHANGED << formVars, interrupted >>
  /\ UNCHANGED << isSelfHosted, mounted, analysisResult, isAnalyzing,
                  showSignInModal, user, currentTaskId, isCancelling,
                  cancelledRef, pollIntervalRef, timers, loading, error,
                  valyu_access_token, valyu_user, tasks, nCreates, nCancels,
                  cancelRequested, terminalApplied >>

\* a pollStatus whose catch block stops polling on an error
PollFailed_StopsPolling(m) ==
  /\ m \in net /\ m.k = "status" /\ m.res \in {"err", "throw"}
  /\ timers' = ClearedTimers(pollIntervalRef, timers)
  /\ pollIntervalRef' = NoTimer
  /\ net' = net \ {m}
  /\ last' = Step("pollFailed", m.task, m.res)
  /\ UNCHANGED << viewVars, routeVars, oauthVars >>
  /\ UNCHANGED << formVars, interrupted >>
  /\ UNCHANGED << isSelfHosted, mounted, analysisResult, isAnalyzing,
                  showSignInModal, user, currentTaskId, isCancelling,
                  cancelledRef, loading, error,
                  valyu_access_token, valyu_user, tasks, nCreates, nPolls,
                  nCancels, cancelRequested,
                  firstPoll, terminalApplied >>

\* pollStatus after the answer: the fetch or response.json() threw, or the
\* answer is not OK with another error than AUTH_REQUIRED (thrown and caught)
PollFailed(m) ==
  /\ m \in net /\ m.k = "status" /\ m.res \in {"err", "throw"}
  /\ net' = net \ {m}
  /\ last' = Step("pollFailed", m.task, m.res)
  /\ UNCHANGED << viewVars, routeVars, oauthVars >>
  /\ UNCHANGED << formVars, interrupted >>
  /\ UNCHANGED << isSelfHosted, mounted, analysisResult, isAnalyzing,
                  showSignInModal, user, currentTaskId, isCancelling,
                  cancelledRef, pollIntervalRef, timers, loading, error,
                  valyu_access_token, valyu_user, tasks, nCreates, nPolls,
                  nCancels, cancelRequested,
                  firstPoll, terminalApplied >>

\* an AUTH_REQUIRED handling that leaves the interval timer running
PollAuthRequired_KeepsTimer(m) ==
  /\ m \in net /\ m.k = "status" /\ m.res = "auth"
  /\ valyu_access_token' = Null
  /\ valyu_user' = Null
  /\ user' = Null
  /\ showSignInModal' = TRUE
  /\ isAnalyzing' = FALSE
  /\ UNCHANGED << analysisResult, mounted, timers, pollIntervalRef >>
  /\ Render(loading, error, net \ {m})
  /\ last' = Step("pollAuthRequired", m.task, m.res)
  /\ UNCHANGED << viewVars, routeVars, oauthVars >>
  /\ interrupted' = TRUE
  /\ UNCHANGED << formVars >>
  /\ UNCHANGED << isSelfHosted, currentTaskId, isCancelling, cancelledRef,
                  tasks, nCreates, nPolls, nCancels, cancelRequested,
                  firstPoll, terminalApplied >>

\* an AUTH_REQUIRED handling that removes the access token only
PollAuthRequired_TokenOnly(m) ==
  /\ m \in net /\ m.k = "status" /\ m.res = "auth"
  /\ valyu_access_token' = Null
  /\ valyu_user' = valyu_user
  /\ user' = Null
  /\ showSignInModal' = TRUE
  /\ timers' = ClearedTimers(pollIntervalRef, timers)
  /\ pollIntervalRef' = NoTimer
  /\ isAnalyzing' = FALSE
  /\ UNCHANGED << analysisResult, mounted >>
  /\ Render(loading, error, net \ {m})
  /\ last' = Step("pollAuthRequired", m.task, m.res)
  /\ UNCHANGED << viewVars, routeVars, oauthVars >>
  /\ interrupted' = TRUE
  /\ UNCHANGED << formVars >>
  /\ UNCHANGED << isSelfHosted, currentTaskId, isCancelling, cancelledRef,
                  tasks, nCreates, nPolls, nCancels, cancelRequested,
                  firstPoll, terminalApplied >>

\* pollStatus after the answer: !response.ok with error AUTH_REQUIRED
PollAuthRequired(m) ==
  /\ m \in net /\ m.k = "status" /\ m.res = "auth"
  /\ valyu_access_token' = Null
  /\ valyu_user' = Null
  /\ user' = Null
  /\ showSignInModal' = TRUE
  /\ timers' = ClearedTimers(pollIntervalRef, timers)
  /\ pollIntervalRef' = NoTimer
  /\ isAnalyzing' = FALSE
  /\ UNCHANGED << analysisResult, mounted >>
  /\ Render(loading, error, net \ {m})
  /\ last' = Step("pollAuthRequired", m.task, m.res)
  /\ UNCHANGED << viewVars, routeVars, oauthVars >>
  /\ interrupted' = TRUE
  /\ UNCHANGED << formVars >>
  /\ UNCHANGED << isSelfHosted, currentTaskId, isCancelling, cancelledRef,
                  tasks, nCreates, nPolls, nCancels, cancelRequested,
                  firstPoll, terminalApplied >>

\* pollStatus after an OK answer: dropped when the flag is set, else
\* setAnalysisResult(data) and, on a terminal status, the timer is cleared
PollOk(m) ==
  /\ m \in net /\ m.k = "status" /\ m.res = "ok"
  /\ UNCHANGED mounted
  /\ IF CancelledDuringFetch
       THEN /\ UNCHANGED << analysisResult, isAnalyzing, pollIntervalRef,
                            timers, terminalApplied >>
            /\ last' = Step("pollIgnored", m.task, m.res)
       ELSE /\ analysisResult' = m.data
            /\ IF IsTerminalStatus(m.data.status)
                 THEN /\ timers' = ClearedTimers(pollIntervalRef, timers)
                      /\ pollIntervalRef' = NoTimer
                      /\ isAnalyzing' = (IF m.data.status # "completed"
                                           THEN FALSE ELSE isAnalyzing)
                      /\ terminalApplied' = terminalApplied \cup {m.task}
                 ELSE UNCHANGED << isAnalyzing, pollIntervalRef, timers,
                                   terminalApplied >>
            /\ last' = Step("pollApplied", m.task, m.res)
  /\ Render(loading, error, net \ {m})
  /\ UNCHANGED << viewVars, routeVars, oauthVars >>
  /\ UNCHANGED << formVars, interrupted >>
  /\ UNCHANGED << isSelfHosted, showSignInModal, user, currentTaskId,
                  isCancelling, cancelledRef, valyu_access_token, valyu_user,
                  tasks, nCreates, nPolls, nCancels, cancelRequested,
                  firstPoll >>

(* --------------------------- reset and cancel -------------------------- *)
\* the results view is rendered off the homepage; it shows the report with
\* the New Research button when the snapshot has output, and the progress
\* card with the Cancel button otherwise
ReportShown == mounted /\ ~isHomepage /\ HasOutput(analysisResult)
ProgressShown == mounted /\ ~isHomepage /\ ~HasOutput(analysisResult)

\* New Research: onReset = handleReset
ResetClicked ==
  /\ ReportShown
  /\ UNCHANGED mounted
  /\ handleReset
  /\ Render(loading, error, net)
  /\ last' = Step("handleReset", NoTask, "")
  /\ UNCHANGED << viewVars, routeVars, oauthVars >>
  /\ interrupted' = TRUE
  /\ UNCHANGED << isSelfHosted, showSignInModal, user, cancelledRef,
                  valyu_access_token, valyu_user, tasks, nCreates, nPolls,
                  nCancels, cancelRequested,
                  firstPoll, terminalApplied >>

\* handleCancel with no task id: the flag is set and handleReset runs
CancelWithoutTask ==
  /\ ProgressShown /\ ~isCancelling
  /\ currentTaskId = NoTask
  /\ cancelledRef' = TRUE
  /\ UNCHANGED mounted
  /\ handleReset
  /\ Render(loading, error, net)
  /\ last' = Step("cancelWithoutTask", NoTask, "")
  /\ UNCHANGED << viewVars, routeVars, oauthVars >>
  /\ interrupted' = TRUE
  /\ UNCHANGED << isSelfHosted, showSignInModal, user, valyu_access_token,
                  valyu_user, tasks, nCreates, nPolls, nCancels,
                  cancelRequested,
                  firstPoll, terminalApplied >>

\* the cancel endpoint: an acknowledged request cancels an unfinished task,
\* a rejected one does not, and one whose fetch throws may have done either
CancelAnswers(t) ==
  LET done == [tasks EXCEPT ![t] =
                 IF t \in Created /\ ~IsTerminalStatus(@.status)
                   THEN [status |-> "cancelled", step |-> 0] ELSE @]
  IN {[res |-> "ok", tasks |-> done], [res |-> "err", tasks |-> tasks],
      [res |-> "throw", tasks |-> tasks], [res |-> "throw", tasks |-> done]}

\* handleCancel up to its await: the flag is set, then the cancel request is
\* sent and answered
CancelRequest ==
  /\ ProgressShown /\ ~isCancelling
  /\ currentTaskId # NoTask
  /\ nCancels < MaxCancels
  /\ nCancels' = nCancels + 1
  /\ cancelledRef' = TRUE
  /\ isCancelling' = TRUE
  /\ cancelRequested' = cancelRequested \cup {currentTaskId}
  /\ \E a \in CancelAnswers(currentTaskId) :
       /\ tasks' = a.tasks
       /\ net' = net \cup
            {[Msg("cancel", nCancels + 1, currentTaskId, a.res, NoResult)
                EXCEPT !.auth = getAuthHeaders]}
  /\ last' = Step("handleCancel", currentTaskId, "")
  /\ UNCHANGED << viewVars, routeVars, oauthVars >>
  /\ interrupted' = TRUE
  /\ UNCHANGED << formVars >>
  /\ UNCHANGED << isSelfHosted, mounted, analysisResult, isAnalyzing,
                  showSignInModal, user, currentTaskId, pollIntervalRef,
                  timers, loading, error, valyu_access_token, valyu_user,
                  nCreates, nPolls, firstPoll, terminalApplied >>

\* a handleCancel without the try/catch: a throwing fetch ends the handler
CancelSettled_Rethrows(m) ==
  /\ m \in net /\ m.k = "cancel"
  /\ UNCHANGED mounted
  /\ IF m.res = "throw"
       THEN UNCHANGED << pollIntervalRef, timers, analysisResult, isAnalyzing,
                         currentTaskId, isCancelling, formVars >>
       ELSE handleReset
  /\ Render(loading, error, net \ {m})
  /\ last' = Step("cancelSettled", m.task, m.res)
  /\ UNCHANGED << viewVars, routeVars, oauthVars >>
  /\ UNCHANGED << interrupted >>
  /\ UNCHANGED << isSelfHosted, showSignInModal, user, cancelledRef,
                  valyu_access_token, valyu_user, tasks, nCreates, nPolls,
                  nCancels, cancelRequested,
                  firstPoll, terminalApplied >>

\* handleCancel after the await, whatever the answer: handleReset
CancelSettled(m) ==
  /\ m \in net /\ m.k = "cancel"
  /\ UNCHANGED mounted
  /\ handleReset
  /\ Render(loading, error, net \ {m})
  /\ last' = Step("cancelSettled", m.task, m.res)
  /\ UNCHANGED << viewVars, routeVars, oauthVars >>
  /\ UNCHANGED << interrupted >>
  /\ UNCHANGED << isSelfHosted, showSignInModal, user, cancelledRef,
                  valyu_access_token, valyu_user, tasks, nCreates, nPolls,
                  nCancels, cancelRequested,
                  firstPoll, terminalApplied >>

(* ------------------------------ the page ------------------------------- *)
\* Sidebar: onSignInClick
SignInClicked ==
  /\ mounted /\ ~showSignInModal
  /\ showSignInModal' = TRUE
  /\ last' = Step("signInClicked", NoTask, "")
  /\ UNCHANGED << viewVars, routeVars, oauthVars >>
  /\ UNCHANGED << formVars, interrupted >>
  /\ UNCHANGED << isSelfHosted, mounted, analysisResult, isAnalyzing, user,
                  currentTaskId, isCancelling, cancelledRef, pollIntervalRef,
                  timers, loading, error, valyu_access_token, valyu_user, net,
                  tasks, nCreates, nPolls, nCancels, cancelRequested,
                  firstPoll, terminalApplied >>

\* SignInModal (hosted mode only): onClose
ModalClosed ==
  /\ mounted /\ ~isSelfHosted /\ showSignInModal
  /\ showSignInModal' = FALSE
  /\ last' = Step("modalClosed", NoTask, "")
  /\ UNCHANGED << viewVars, routeVars, oauthVars >>
  /\ UNCHANGED << formVars, interrupted >>
  /\ UNCHANGED << isSelfHosted, mounted, analysisResult, isAnalyzing, user,
                  currentTaskId, isCancelling, cancelledRef, pollIntervalRef,
                  timers, loading, error, valyu_access_token, valyu_user, net,
                  tasks, nCreates, nPolls, nCancels, cancelRequested,
                  firstPoll, terminalApplied >>

\* the unmount cleanup: clearInterval on the handle (the handle keeps its value).
\* Handlers already awaiting an answer still run afterwards.
Unmount ==
  /\ mounted
  /\ mounted' = FALSE
  /\ timers' = ClearedTimers(pollIntervalRef, timers)
  /\ UNCHANGED << analysisResult, isAnalyzing >>
  /\ Render(loading, error, net)
  /\ last' = Step("unmount", NoTask, "")
  /\ UNCHANGED << viewVars, routeVars, oauthVars >>
  /\ interrupted' = TRUE
  /\ UNCHANGED << formVars >>
  /\ UNCHANGED << isSelfHosted, showSignInModal, user, currentTaskId,
                  isCancelling, cancelledRef, pollIntervalRef,
                  valyu_access_token, valyu_user, tasks, nCreates, nPolls,
                  nCancels, cancelRequested,
                  firstPoll, terminalApplied >>

\* onChange of the supplement name input: setSupplementName
TypeName(name) ==
  /\ FormShown
  /\ name # supplementName
  /\ supplementName' = name
  /\ last' = Step("typeName", NoTask, "")
  /\ UNCHANGED << viewVars, routeVars, oauthVars, researchFocus, interrupted >>
  /\ UNCHANGED << isSelfHosted, mounted, analysisResult, isAnalyzing,
                  showSignInModal, user, currentTaskId, isCancelling,
                  cancelledRef, pollIntervalRef, timers, loading, error,
                  valyu_access_token, valyu_user, net, tasks, nCreates,
                  nPolls, nCancels, cancelRequested, firstPoll,
                  terminalApplied >>

\* onChange of the research focus input: setResearchFocus
TypeFocus(focus) ==
  /\ FormShown
  /\ focus # researchFocus
  /\ researchFocus' = focus
  /\ last' = Step("typeFocus", NoTask, "")
  /\ UNCHANGED << viewVars, routeVars, oauthVars, supplementName, interrupted >>
  /\ UNCHANGED << isSelfHosted, mounted, analysisResult, isAnalyzing,
                  showSignInModal, user, currentTaskId, isCancelling,
                  cancelledRef, pollIntervalRef, timers, loading, error,
                  valyu_access_token, valyu_user, net, tasks, nCreates,
                  nPolls, nCancels, cancelRequested, firstPoll,
                  terminalApplied >>

(* ------------------------ page load and sign-in ------------------------ *)
\* a stored user profile that is not JSON
CorruptProfile == "{"

\* the user the mount effect loads from a stored profile: JSON.parse of a
\* profile that is there and parses; else the state stays null
LoadedUser(storedUser) ==
  IF storedUser \notin {Null, CorruptProfile} THEN storedUser ELSE Null

\* the mount effect: if (isSelfHosted) return
SkipOAuthHandling == isSelfHosted

\* the page mounts and its effect runs: in self-hosted mode it returns at
\* once; in hosted mode it loads the user from localStorage (a profile that
\* does not parse is removed) and, on auth=success, shows the success
\* message, reloads the user, restores the saved form values into the form
\* and cleans the URL
PageLoad ==
  /\ ~mounted /\ location = AtPage /\ last.op = "init"
  /\ mounted' = TRUE
  /\ IF SkipOAuthHandling
       THEN UNCHANGED << user, valyu_user, showAuthSuccess, searchParams,
                         oauth_form_values, returned, pending, formVars >>
       ELSE /\ valyu_user' = (IF valyu_user = CorruptProfile THEN Null
                              ELSE valyu_user)
            /\ user' = LoadedUser(valyu_user)
            /\ IF searchParams = "success"
                 THEN /\ showAuthSuccess' = TRUE
                      /\ restoreFormValuesAfterOAuth
                      /\ supplementName' =
                           (IF ~returned'.isNull
                                 /\ Truthy(returned'.supplementName)
                              THEN returned'.supplementName
                              ELSE supplementName)
                      /\ researchFocus' =
                           (IF ~returned'.isNull
                                 /\ Truthy(returned'.researchFocus)
                              THEN returned'.researchFocus
                              ELSE researchFocus)
                      /\ searchParams' = "none"
                 ELSE UNCHANGED << showAuthSuccess, searchParams,
                                   oauth_form_values, returned, pending,
                                   formVars >>
  /\ last' = Step("pageLoad", NoTask, "")
  /\ UNCHANGED << viewVars, routeVars, interrupted, location, env,
                  oauth_code_verifier, oauth_state, flows, nFlows >>
  /\ UNCHANGED << isSelfHosted, analysisResult, isAnalyzing,
                  showSignInModal, currentTaskId, isCancelling,
                  cancelledRef, pollIntervalRef, timers, loading, error,
                  valyu_access_token, net, tasks, nCreates,
                  nPolls, nCancels, cancelRequested, firstPoll,
                  terminalApplied >>

\* the timeout set by the mount effect on auth=success: setShowAuthSuccess(false)
HideAuthSuccess ==
  /\ mounted /\ showAuthSuccess
  /\ showAuthSuccess' = FALSE
  /\ last' = Step("hideAuthSuccess", NoTask, "")
  /\ UNCHANGED << pageVars, viewVars, routeVars, formVars, searchParams, location,
                  env, oauth_form_values, oauth_code_verifier, oauth_state,
                  flows, nFlows, returned, pending >>

\* SignInModal (hosted mode only): handleSignIn, with the form's values
handleSignIn ==
  /\ mounted /\ ~isSelfHosted /\ showSignInModal
  /\ nFlows < MaxFlows
  /\ initiateOAuthFlow(Values(supplementName, researchFocus))
  /\ last' = Step("handleSignIn", NoTask, "")
  /\ UNCHANGED << pageVars, viewVars, routeVars, formVars, showAuthSuccess,
                  searchParams, env, returned >>

\* the browser leaves the page for the authorization endpoint: the page, its
\* timers and its pending handlers are gone
PageUnloads ==
  /\ mounted /\ location.at = "authorize"
  /\ mounted' = FALSE
  /\ timers' = {}
  /\ net' = {}
  /\ flows' = {}
  /\ last' = Step("pageUnloads", NoTask, "")
  /\ UNCHANGED << viewVars, routeVars, formVars, interrupted, showAuthSuccess,
                  searchParams, location, env, oauth_form_values,
                  oauth_code_verifier, oauth_state, nFlows, returned,
                  pending >>
  /\ UNCHANGED << isSelfHosted, analysisResult, isAnalyzing,
                  showSignInModal, user, currentTaskId, isCancelling,
                  cancelledRef, pollIntervalRef, loading, error,
                  valyu_access_token, valyu_user, tasks, nCreates,
                  nPolls, nCancels, cancelRequested, firstPoll,
                  terminalApplied >>

(* --------------------------- the results view ------------------------- *)
\* a progress payload
Progress(current_step, total_steps) ==
  [current_step |-> current_step, total_steps |-> total_steps]

\* the percentage span of the progress block: not rendered, or a number
NotShown == [shown |-> FALSE, percent |-> 0]
Shown(percent) == [shown |-> TRUE, percent |-> percent]

\* A double between 0 and 128 is held as a significand of 53 bits (60 after
\* a multiplication that is not yet rounded), in three limbs of 20 bits with
\* the lowest first, and a scale: its value is significand / 2^scale.
Limb == 2^20

\* carries moved up, so that the two lower limbs are below 2^20
Carried(l) ==
  << l[1] % Limb, (l[2] + l[1] \div Limb) % Limb,
     l[3] + (l[2] + l[1] \div Limb) \div Limb >>

\* c / t in double arithmetic, for 0 < c < t < 64: the quotient to 53
\* significant bits, rounded to nearest with ties to even
Quotient(c, t) ==
  LET e == CHOOSE i \in 1..6 :
             c * 2^i >= t /\ \A j \in 1..(i - 1) : c * 2^j < t
      n3 == c * 2^(12 + e)
      n2 == (n3 % t) * Limb
      n1 == (n2 % t) * Limb
      r == n1 % t
      up == 2 * r > t \/ (2 * r = t /\ (n1 \div t) % 2 = 1)
  IN [sig |-> Carried(<< n1 \div t + (IF up THEN 1 ELSE 0), n2 \div t,
                         n3 \div t >>),
      scale |-> 52 + e]

\* x * 100 in double arithmetic: the product to 53 significant bits, rounded
\* to nearest with ties to even
Times100(x) ==
  LET p == Carried(<< 100 * x.sig[1], 100 * x.sig[2], 100 * x.sig[3] >>)
      d == IF p[3] >= 2^19 THEN 7 ELSE 6
      dropped == p[1] % 2^d
      up == \/ dropped > 2^(d - 1)
            \/ dropped = 2^(d - 1) /\ (p[1] \div 2^d) % 2 = 1
  IN [sig |-> Carried(<< p[1] - dropped + (IF up THEN 2^d ELSE 0), p[2],
                         p[3] >>),
      scale |-> x.scale]

\* Math.round of a double: the nearest integer, a half going up
MathRound(y) == (y.sig[3] + 2^(y.scale - 41)) \div 2^(y.scale - 40)

\* Math.round((current_step / total_steps) * 100) for a payload with
\* 0 <= current_step <= total_steps and 0 < total_steps
Percent(p) ==
  IF p.current_step = 0 THEN 0
  ELSE IF p.current_step = p.total_steps THEN 100
  ELSE MathRound(Times100(Quotient(p.current_step, p.total_steps)))

\* ResearchResults renders the progress block of its result
ShowProgress ==
  /\ ~percentShown.shown
  /\ percentShown' = Shown(Percent(progress))
  /\ UNCHANGED << progress, pageVars, routeVars, oauthVars, formVars, last >>

(* --------------------------- the specification ------------------------- *)
\* the supplement names a user types
Names == {"collagen"}


\* no creation request is being handled by the route
NoRequest == [authorization |-> NoHeader,
              body |-> [json |-> FALSE, supplementName |-> ""]]
NoAnswer == Answer(0, << >>, Undefined, FALSE, Undefined)

\* the sign-in flow is not in use
OAuthAtRest ==
  /\ showAuthSuccess = FALSE
  /\ searchParams = "none"
  /\ location = AtPage
  /\ env = Configured
  /\ oauth_form_values = NoItem
  /\ oauth_code_verifier = Null
  /\ oauth_state = Null
  /\ flows = {}
  /\ nFlows = 0
  /\ returned = NullValues
  /\ pending = NullValues

\* the route is not in use
RouteAtRest ==
  /\ request = NoRequest
  /\ upstream = CHOOSE up \in ProxyOutcomes : up.kind = "throw"
  /\ response = NoAnswer

\* no progress block is rendered
ViewAtRest ==
  /\ progress = Progress(0, 1)
  /\ percentShown = NotShown

\* the controller, the form and the service at the start of a page session
ControllerAtRest ==
  /\ analysisResult = NoResult
  /\ isAnalyzing = FALSE
  /\ showSignInModal = FALSE
  /\ currentTaskId = NoTask
  /\ isCancelling = FALSE
  /\ cancelledRef = FALSE
  /\ pollIntervalRef = NoTimer
  /\ timers = {}
  /\ loading = FALSE
  /\ error = ""
  /\ net = {}
  /\ tasks = [t \in TaskIds |-> NotCreated]
  /\ nCreates = 0 /\ nPolls = 0 /\ nCancels = 0
  /\ cancelRequested = {}
  /\ firstPoll = [t \in TaskIds |-> "none"]
  /\ terminalApplied = {}
  /\ interrupted = FALSE
  /\ supplementName = ""
  /\ researchFocus = ""

\* the page after its first render and effects: in hosted mode the user is
\* loaded from localStorage; in self-hosted mode that effect returns at once
PageInit ==
  /\ isSelfHosted \in BOOLEAN
  /\ \E signedIn \in BOOLEAN :
       /\ valyu_access_token = (IF signedIn THEN Token ELSE Null)
       /\ valyu_user = (IF signedIn THEN UserProfile ELSE Null)
  /\ user = (IF isSelfHosted THEN Null ELSE valyu_user)
  /\ mounted = TRUE
  /\ ControllerAtRest
  /\ last = Step("init", NoTask, "")

Init == PageInit /\ OAuthAtRest /\ RouteAtRest /\ ViewAtRest

Next ==
  \/ \E name \in Names : TypeName(name)
  \/ SubmitSignIn
  \/ SubmitRequest
  \/ \E m \in net : SubmitCreated(m)
  \/ \E m \in net : SubmitAuthRequired(m)
  \/ \E m \in net : SubmitFailed(m)
  \/ \E tm \in timers : Tick(tm)
  \/ \E m \in net : PollFailed(m)
  \/ \E m \in net : PollAuthRequired(m)
  \/ \E m \in net : PollOk(m)
  \/ ResetClicked
  \/ CancelWithoutTask
  \/ CancelRequest
  \/ \E m \in net : CancelSettled(m)
  \/ SignInClicked
  \/ ModalClosed
  \/ Unmount
  \/ \E t \in TaskIds : ServerAdvance(t)

Spec == Init /\ [][Next]_vars

(* --------------------- a self-hosted page that stays ------------------- *)
\* a self-hosted deployment: no sign-in, no AUTH_REQUIRED answers
InitFair == Init /\ isSelfHosted /\ valyu_access_token = Null

\* the user types, submits, cancels and resets, and stays on the page
NextFair ==
  \/ \E name \in Names : TypeName(name)
  \/ SubmitRequest
  \/ \E m \in net : SubmitCreated(m)
  \/ \E m \in net : SubmitFailed(m)
  \/ \E tm \in timers : Tick(tm)
  \/ \E m \in net : PollFailed(m)
  \/ \E m \in net : PollOk(m)
  \/ ResetClicked
  \/ CancelWithoutTask
  \/ CancelRequest
  \/ \E m \in net : CancelSettled(m)
  \/ \E t \in TaskIds : ServerAdvance(t)

\* the event loop runs every callback that is due: a live interval timer
\* keeps firing, and the continuation of a handler runs once its answer has
\* arrived
Fairness ==
  /\ WF_vars(\E tm \in timers : Tick(tm))
  /\ WF_vars(\E m \in net : PollOk(m))
  /\ WF_vars(\E m \in net : PollFailed(m))
  /\ WF_vars(\E m \in net : SubmitCreated(m))
  /\ WF_vars(\E m \in net : SubmitFailed(m))
  /\ WF_vars(\E m \in net : CancelSettled(m))

SpecFair == InitFair /\ [][NextFair]_vars /\ Fairness

(* ---------------------- the OAuth library on its own ------------------- *)
\* the form values a caller may pass
FormValues ==
  {Values(n, f) : n \in {Undefined, "", "collagen"}, f \in {Undefined, "sleep"}}

\* a caller on a page of any deployment; the form values item may hold a text
\* that is not JSON
InitOAuth ==
  /\ PageInit /\ RouteAtRest /\ ViewAtRest
  /\ showAuthSuccess = FALSE
  /\ searchParams = "none"
  /\ location = AtPage
  /\ env \in Envs
  /\ oauth_form_values \in {NoItem, Item(Corrupt)}
  /\ oauth_code_verifier = Null
  /\ oauth_state = Null
  /\ flows = {}
  /\ nFlows = 0
  /\ returned = NullValues
  /\ pending = NullValues

\* a call of saveFormValuesBeforeOAuth(values)
CallSave(values) ==
  /\ location = AtPage
  /\ saveFormValuesBeforeOAuth(values)
  /\ last' = Step("saveFormValuesBeforeOAuth", NoTask, "")
  /\ UNCHANGED << pageVars, viewVars, routeVars, formVars, showAuthSuccess,
                  searchParams, location, env, oauth_code_verifier,
                  oauth_state, flows, nFlows, returned >>

\* a call of restoreFormValuesAfterOAuth()
CallRestore ==
  /\ location = AtPage
  /\ restoreFormValuesAfterOAuth
  /\ last' = Step("restoreFormValuesAfterOAuth", NoTask,
                  IF returned'.isNull THEN "null" ELSE "values")
  /\ UNCHANGED << pageVars, viewVars, routeVars, formVars, showAuthSuccess,
                  searchParams, location, env, oauth_code_verifier,
                  oauth_state, flows, nFlows >>

\* a call of initiateOAuthFlow(formValues), with or without form values
CallInitiate(formValues) ==
  /\ location = AtPage
  /\ nFlows < MaxFlows
  /\ initiateOAuthFlow(formValues)
  /\ last' = Step("initiateOAuthFlow", NoTask,
                  IF formValues.isNull THEN "" ELSE "formValues")
  /\ UNCHANGED << pageVars, viewVars, routeVars, formVars, showAuthSuccess,
                  searchParams, env, returned >>

\* the code challenge of a pending initiateOAuthFlow call is ready
Redirect(f) ==
  /\ initiateOAuthFlowRedirects(f)
  /\ last' = Step("redirect", NoTask, "")
  /\ UNCHANGED << pageVars, viewVars, routeVars, formVars, showAuthSuccess,
                  searchParams, env, returned >>

NextOAuth ==
  \/ \E values \in FormValues : CallSave(values)
  \/ CallRestore
  \/ \E formValues \in FormValues \cup {NullValues} : CallInitiate(formValues)
  \/ \E f \in flows : Redirect(f)

SpecOAuth == InitOAuth /\ [][NextOAuth]_vars

(* ------------------ the page from its load to sign-in ------------------ *)
\* the research focuses a user types
Focuses == {"sleep"}

\* the page is about to mount, in either mode, over any browser state: signed
\* in, signed out or with a profile that does not parse; with or without an
\* auth result in the URL and saved form values; OAuth configured or not
InitSignIn ==
  /\ isSelfHosted \in BOOLEAN
  /\ \E stored \in {<< Null, Null >>, << Token, UserProfile >>,
                     << Token, CorruptProfile >>} :
       /\ valyu_access_token = stored[1]
       /\ valyu_user = stored[2]
  /\ user = Null
  /\ mounted = FALSE
  /\ ControllerAtRest
  /\ last = Step("init", NoTask, "")
  /\ RouteAtRest /\ ViewAtRest
  /\ showAuthSuccess = FALSE
  /\ searchParams \in {"none", "success", "error"}
  /\ location = AtPage
  /\ env \in {Configured, [Configured EXCEPT !.redirect_uri = ""]}
  /\ \E saved \in {NullValues, Values("zinc", "")} :
       /\ oauth_form_values =
            (IF saved.isNull THEN NoItem ELSE Item(JSONstringify(saved)))
       /\ pending = saved
  /\ oauth_code_verifier = Null
  /\ oauth_state = Null
  /\ flows = {}
  /\ nFlows = 0
  /\ returned = NullValues

NextSignIn ==
  \/ PageLoad
  \/ HideAuthSuccess
  \/ \E name \in Names : TypeName(name)
  \/ \E focus \in Focuses : TypeFocus(focus)
  \/ SubmitSignIn
  \/ SubmitRequest
  \/ \E m \in net : SubmitCreated(m)
  \/ \E m \in net : SubmitAuthRequired(m)
  \/ \E m \in net : SubmitFailed(m)
  \/ SignInClicked
  \/ ModalClosed
  \/ handleSignIn
  \/ \E f \in flows : Redirect(f)
  \/ PageUnloads

SpecSignIn == InitSignIn /\ [][NextSignIn]_vars

(* ---------------------- the results view on its own ------------------- *)
\* the progress payloads a result may carry, with
\* 0 <= current_step <= total_steps and 0 < total_steps
Payloads ==
  {p \in [current_step : 0..MaxTotal, total_steps : 1..MaxTotal] :
     p.current_step <= p.total_steps}

InitProgress ==
  /\ PageInit /\ OAuthAtRest /\ RouteAtRest
  /\ progress \in Payloads
  /\ percentShown = NotShown

NextProgress == ShowProgress

SpecProgress == InitProgress /\ [][NextProgress]_vars

(* ---------------------- the creation route on its own ------------------ *)
\* a creation request arrives at the route, with any Authorization header
\* and body, and the upstream call will end in any way its channel allows
InitRoute ==
  /\ PageInit /\ OAuthAtRest /\ ViewAtRest
  /\ request \in [authorization : AuthorizationHeaders, body : Bodies]
  /\ upstream \in UpstreamOutcomes
  /\ response = NoAnswer

\* the route handles the request and answers
Route ==
  /\ response = NoAnswer
  /\ response' = POST(request, upstream)
  /\ UNCHANGED << request, upstream, oauthVars, formVars, interrupted, last,
                  viewVars >>
  /\ UNCHANGED << isSelfHosted, mounted, analysisResult, isAnalyzing,
                  showSignInModal, user, currentTaskId, isCancelling,
                  cancelledRef, pollIntervalRef, timers, loading, error,
                  valyu_access_token, valyu_user, net, tasks, nCreates,
                  nPolls, nCancels, cancelRequested, firstPoll,
                  terminalApplied >>

NextRoute == Route

SpecRoute == InitRoute /\ [][NextRoute]_vars

(* ------------------------------ the claims ----------------------------- *)
\* this step is the arrival of the answer to a status check
PollDelivered == \E m \in net : m.k = "status" /\ m \notin net'

\* this step is the arrival of the answer to a status check of a task for
\* which cancellation had been requested
CancelledPollDelivered ==
  \E m \in net : /\ m.k = "status" /\ m \notin net'
                 /\ m.res = "ok"
                 /\ m.task \in cancelRequested

\* Idle: no snapshot, no task id, not analysing, the timer handle cleared
Idle ==
  /\ analysisResult = NoResult
  /\ currentTaskId = NoTask
  /\ ~isAnalyzing
  /\ pollIntervalRef = NoTimer

\* C1: terminal is sticky: once the snapshot holds a completed or failed
\* status (it is cleared only by reset), the arrival of a later answer to a
\* status check, one already in flight included, leaves the snapshot as it is.
C1_TerminalSticky ==
  [][(analysisResult.status \in {"completed", "failed"} /\ PollDelivered)
       => analysisResult' = analysisResult]_vars

\* C3: the answer to a status check of a task whose cancellation was
\* requested before the answer arrives is discarded: its arrival changes
\* neither the snapshot nor the timer, also when a new task has been started
\* in between. Stated for the answers that carry a task bundle, the ones the
\* cancellation flag decides about.
C3_CancelledAnswerDiscarded ==
  [][CancelledPollDelivered =>
       /\ analysisResult' = analysisResult
       /\ pollIntervalRef' = pollIntervalRef
       /\ timers' = timers]_vars

\* the cancel request's answer has not arrived yet
CancelInFlight == \E m \in net : m.k = "cancel"

\* this step is the arrival of the cancel request's answer
CancelDelivered == \E m \in net : m.k = "cancel" /\ m \notin net'

\* C2: after cancel, while the flag it set stands, the answer to a status
\* check that was in flight changes neither the snapshot nor the task id and
\* starts neither analysing nor a timer; once the cancel request has settled
\* the controller is Idle and stays Idle when such an answer arrives.
C2_StaleAnswerAfterCancel ==
  /\ []((cancelledRef /\ ~CancelInFlight) => Idle)
  /\ [][(cancelledRef /\ PollDelivered) =>
          /\ analysisResult' = analysisResult
          /\ currentTaskId' = currentTaskId
          /\ (isAnalyzing' => isAnalyzing)
          /\ timers' \subseteq timers]_vars

\* the answer to a status check of the cancelled task arrived after the cancel
\* request had settled, and was dropped
C2_Witness ==
  /\ last.op = "pollIgnored"
  /\ last.task \in cancelRequested
  /\ cancelledRef /\ ~CancelInFlight
  /\ Idle

\* C4: handleTaskCreated leaves the controller analysing the new task with
\* exactly one status request for it sent and the 10-second interval timer
\* in the handle; no task's first status request is sent by a timer tick.
C4_TaskCreatedStartsPolling ==
  /\ last.op = "handleTaskCreated" =>
       /\ isAnalyzing
       /\ currentTaskId = last.task
       /\ ~cancelledRef
       /\ Cardinality({m \in net : m.k = "status" /\ m.task = last.task}) = 1
       /\ pollIntervalRef = Timer(last.task)
       /\ pollIntervalRef \in timers
       /\ pollIntervalRef.period = 10000
  /\ \A t \in TaskIds : firstPoll[t] # "tick"
  /\ \A tm \in timers : firstPoll[tm.task] = "immediate"

\* a task was created after an earlier one had been cancelled
C4_Witness ==
  /\ last.op = "handleTaskCreated"
  /\ cancelRequested # {}
  /\ firstPoll[last.task] = "immediate"

\* C5: when an answer with a terminal status is applied, the same step clears
\* the timer in the handle and the snapshot is that answer; the snapshot is
\* then kept when later answers arrive, and no status request is sent for
\* that task any more.
C5_TerminalStopsPolling ==
  /\ [][\A m \in net :
          (/\ m.k = "status" /\ m \notin net'
           /\ last'.op = "pollApplied"
           /\ IsTerminalStatus(m.data.status))
          => /\ pollIntervalRef' = NoTimer
             /\ pollIntervalRef \notin timers'
             /\ analysisResult' = m.data]_vars
  /\ [][(IsTerminalStatus(analysisResult.status) /\ PollDelivered)
          => analysisResult' = analysisResult]_vars
  /\ [][\A m \in net' \ net :
          m.k = "status" => m.task \notin terminalApplied]_vars

\* C6: in every reachable state handleReset yields Idle with the handle's
\* timer cleared, and applying it to its own result changes nothing; the
\* steps that run it end in that state.
C6_ResetIdempotent ==
  LET r == handleResetF(Controller) IN
  /\ r.analysisResult = NoResult
  /\ r.currentTaskId = NoTask
  /\ ~r.isAnalyzing
  /\ r.pollIntervalRef = NoTimer
  /\ pollIntervalRef \notin r.timers
  /\ handleResetF(r) = r
  /\ last.op \in {"handleReset", "cancelWithoutTask", "cancelSettled"}
       => Idle /\ ~isCancelling

\* reset ran from the completed state, whose timer was already cleared
C6_Witness ==
  /\ last.op = "handleReset"
  /\ terminalApplied # {}
  /\ Idle

\* C7: whatever the cancel request's outcome, when it settles the controller
\* is Idle and not cancelling, and the step shows no error.
C7_CancelAlwaysCompletes ==
  /\ [](last.op = "cancelSettled" => Idle /\ ~isCancelling)
  /\ [][CancelDelivered => (error' = error \/ error' = "")]_vars

\* the cancel request threw and the controller is Idle
C7_Witness ==
  /\ last.op = "cancelSettled" /\ last.res = "throw"
  /\ Idle /\ ~isCancelling

\* C8: the arrival of AUTH_REQUIRED from a status check removes the stored
\* token and profile, clears the timer in the handle, opens the sign-in
\* modal and leaves the snapshot as it is.
C8_AuthRequiredStopsPolling ==
  [][\A m \in net :
       (m.k = "status" /\ m.res = "auth" /\ m \notin net')
       => /\ valyu_access_token' = Null
          /\ valyu_user' = Null
          /\ pollIntervalRef' = NoTimer
          /\ pollIntervalRef \notin timers'
          /\ showSignInModal'
          /\ analysisResult' = analysisResult]_vars

\* AUTH_REQUIRED arrived while a snapshot was exposed
C8_Witness ==
  /\ last.op = "pollAuthRequired"
  /\ analysisResult # NoResult
  /\ showSignInModal
  /\ pollIntervalRef = NoTimer

\* C9: every step that changes the stored token or the stored profile leaves
\* both absent: no step ends with only one of them cleared.
C9_BothKeysClearedTogether ==
  [][(valyu_access_token' # valyu_access_token \/ valyu_user' # valyu_user)
       => (valyu_access_token' = Null /\ valyu_user' = Null)]_vars

\* AUTH_REQUIRED from a status check cleared the session
C9_Witness ==
  /\ last.op = "pollAuthRequired"
  /\ valyu_access_token = Null
  /\ valyu_user = Null

\* C10: after AUTH_REQUIRED was handled, from task creation or from a status
\* check, the stored access token, the stored user profile and the in-memory
\* user are all absent.
C10_SessionDestroyed ==
  last.op \in {"submitAuthRequired", "pollAuthRequired"}
    => /\ valyu_access_token = Null
       /\ valyu_user = Null
       /\ user = Null

\* C11: a status check that fails without AUTH_REQUIRED (the fetch throws,
\* the body does not parse, or the answer is not OK with another error) is
\* swallowed: its arrival changes neither the snapshot, the timer, the
\* analysing flag nor the task id and shows neither an error nor the sign-in
\* modal, and the tick that follows it sends a new status request (unless
\* cancel has set the flag).
C11_FailedCheckSwallowed ==
  /\ [][\A m \in net :
          (m.k = "status" /\ m.res \in {"err", "throw"} /\ m \notin net')
          => /\ analysisResult' = analysisResult
             /\ pollIntervalRef' = pollIntervalRef
             /\ timers' = timers
             /\ isAnalyzing' = isAnalyzing
             /\ currentTaskId' = currentTaskId
             /\ cancelledRef' = cancelledRef
             /\ error' = error
             /\ showSignInModal' = showSignInModal]_vars
  /\ [][(/\ last.op = "pollFailed"
          /\ last'.op \in {"tick", "tickSkipped"}
          /\ ~cancelledRef)
          => \E m \in net' \ net : m.k = "status" /\ m.task = last'.task]_vars

\* a failed status check was swallowed while the task is polled: the timer in
\* the handle is live and a tick can send the next check
C11_Witness ==
  /\ last.op = "pollFailed"
  /\ isAnalyzing /\ ~cancelledRef
  /\ pollIntervalRef = Timer(currentTaskId)
  /\ pollIntervalRef \in timers
  /\ nPolls < MaxPolls

\* C12: polling has no duration or attempt limit: whenever the controller is
\* analysing a task, the exposed status is not terminal and no cancel, reset,
\* AUTH_REQUIRED or unmount has occurred, the task's interval timer is in the
\* handle and live.
C12_PollingContinues ==
  (/\ isAnalyzing
   /\ currentTaskId # NoTask
   /\ ~IsTerminalStatus(analysisResult.status)
   /\ ~interrupted)
  => /\ pollIntervalRef = Timer(currentTaskId)
     /\ pollIntervalRef \in timers

\* the requests sent by this step (their answers are put in flight by it)
Sent == {m \in net' : ~\E o \in net : o.k = m.k /\ o.id = m.id}

\* C13: in hosted mode every create, status and cancel request carries
\* Authorization: Bearer <token> with the token held in the token store; in
\* self-hosted mode no request carries an Authorization header, whatever the
\* store contains.
C13_RequestsCarryBearer ==
  [][\A m \in Sent :
       IF isSelfHosted THEN m.auth = NoHeader
       ELSE /\ valyu_access_token # Null
            /\ m.auth = Bearer(valyu_access_token)]_vars

\* C13 as amended: in hosted mode a request carries Authorization: Bearer
\* <token> with the token held in the token store when the store holds one
\* and no Authorization header when the store is empty; in self-hosted mode
\* no request carries an Authorization header, whatever the store contains.
C13_AuthorizationFollowsStore ==
  [][\A m \in Sent :
       IF isSelfHosted THEN m.auth = NoHeader
       ELSE IF valyu_access_token # Null
         THEN m.auth = Bearer(valyu_access_token)
         ELSE m.auth = NoHeader]_vars

\* hosted mode: a cancel request was sent after AUTH_REQUIRED had emptied the
\* token store, and it carries no Authorization header
C13_Witness ==
  /\ ~isSelfHosted
  /\ last.op = "handleCancel"
  /\ valyu_access_token = Null
  /\ \E m \in net : m.k = "cancel" /\ m.auth = NoHeader

\* the route has answered the request
Answered == response # NoAnswer

\* the request carries a non-empty bearer token
HasBearerToken ==
  request.authorization.scheme = "Bearer" /\ request.authorization.token # ""

\* the request's body is JSON with a supplement name
HasSupplementName ==
  request.body.json /\ request.body.supplementName \notin {Undefined, ""}

\* C15: in hosted mode a creation request without a non-empty bearer token is
\* answered 401 AUTH_REQUIRED whatever its body, and no upstream call is
\* made; in self-hosted mode the answer does not depend on the Authorization
\* header, the upstream call is made whenever the body names a supplement,
\* and no token is forwarded upstream.
C15_HostedRequiresBearer ==
  Answered =>
    /\ (~isSelfHosted /\ ~HasBearerToken)
         => /\ response.status = 401
            /\ response.error = << "AUTH_REQUIRED" >>
            /\ ~response.called
    /\ isSelfHosted
         => /\ response.forwarded = Undefined
            /\ response.called = HasSupplementName
            /\ \A h \in AuthorizationHeaders :
                 POST([request EXCEPT !.authorization = h], upstream) = response

\* hosted mode: a request with a bearer scheme and an empty token, and a
\* valid body, was answered 401
C15_Witness ==
  /\ Answered /\ ~isSelfHosted
  /\ request.authorization = Bearer("")
  /\ HasSupplementName
  /\ response.status = 401

\* C16: the route answers with success, the task id and status "queued"
\* exactly when the upstream call was made and returned a non-empty
\* deepresearch_id, and the id it returns is the upstream one; an upstream
\* answer without an id gives an error answer, never a success.
C16_SuccessIffUpstreamId ==
  Answered =>
    /\ response.success
         = (response.called /\ upstream.kind = "ok" /\ upstream.id # "")
    /\ response.success
         => /\ response.status = 200
            /\ response.deepresearch_id = upstream.id
            /\ response.deepresearch_id # ""
            /\ response.taskStatus = "queued"
    /\ (response.called /\ upstream.kind = "ok" /\ upstream.id = "")
         => /\ response.status = 500
            /\ response.error # << >>
            /\ response.deepresearch_id = Undefined

\* the upstream call answered without a task id and the route answered 500
C16_Witness ==
  /\ Answered /\ response.called
  /\ upstream.kind = "ok" /\ upstream.id = ""
  /\ response.status = 500

\* the upstream call failed: the proxy answered not OK, or the call threw
UpstreamFailed == response.called /\ upstream.kind \in {"notOk", "throw"}

\* the proxy rejected the credential: status 401 or 403, or an error payload
\* containing invalid_token, expired or unauthorized
ProxyRejected ==
  /\ response.called /\ ~isSelfHosted /\ upstream.kind = "notOk"
  /\ \/ upstream.status \in {401, 403}
     \/ includes(upstream.error, "invalid_token")
     \/ includes(upstream.error, "expired")
     \/ includes(upstream.error, "unauthorized")

\* the answer's error text ends with the upstream error text
CarriesUpstreamError ==
  LET e == response.error
      u == upstream.error
  IN Len(e) >= Len(u) /\ SubSeq(e, Len(e) - Len(u) + 1, Len(e)) = u

\* C17: task creation fails with AUTH_REQUIRED (401) when the upstream proxy
\* rejects the credential, and with a generic error (500) carrying the
\* upstream error message in every other upstream failure.
C17_AuthOrGeneric ==
  Answered =>
    /\ ProxyRejected
         => response.status = 401 /\ response.error = << "AUTH_REQUIRED" >>
    /\ (UpstreamFailed /\ ~ProxyRejected)
         => /\ response.status = 500
            /\ response.error # << "AUTH_REQUIRED" >>
            /\ CarriesUpstreamError

\* the upstream error text is AUTH_REQUIRED itself
UpstreamSaysAuthRequired == UpstreamFailed /\ upstream.error = << "AUTH_REQUIRED" >>

\* C17 as amended: task creation fails with AUTH_REQUIRED (401) when the
\* upstream proxy rejects the credential or the upstream error message is
\* exactly AUTH_REQUIRED, and with a generic error (500) carrying the
\* upstream error text in every other upstream failure.
C17_AuthOrGenericAmended ==
  Answered =>
    /\ (ProxyRejected \/ UpstreamSaysAuthRequired)
         => response.status = 401 /\ response.error = << "AUTH_REQUIRED" >>
    /\ (UpstreamFailed /\ ~ProxyRejected /\ ~UpstreamSaysAuthRequired)
         => /\ response.status = 500
            /\ response.error # << "AUTH_REQUIRED" >>
            /\ CarriesUpstreamError

\* the proxy answered 500 with an error payload that says the token expired,
\* and the route answered AUTH_REQUIRED
C17_Witness ==
  /\ Answered /\ ProxyRejected
  /\ upstream.status = 500 /\ upstream.error = << "token", "expired" >>
  /\ response.status = 401

\* this step is the arrival of answer m (its continuation runs)
Delivered(m) == m \in net /\ ~\E o \in net' : o.k = m.k /\ o.id = m.id

\* C18: a failed creation request never starts polling and leaves the form
\* resubmittable: when its answer arrives on a mounted page, no timer is
\* started, no status request is sent, onTaskCreated is not called, and the
\* form is shown with loading false; on AUTH_REQUIRED the sign-in prompt is
\* open and there is no error text, on any other failure the error message
\* is shown inline.
C18_FailedCreationResubmittable ==
  [][\A m \in net :
       (/\ m.k = "create" /\ m.res # "ok" /\ Delivered(m)
        /\ mounted /\ mounted')
       => /\ timers' = timers
          /\ pollIntervalRef' = pollIntervalRef
          /\ nPolls' = nPolls
          /\ isAnalyzing' = isAnalyzing
          /\ currentTaskId' = currentTaskId
          /\ FormShown'
          /\ ~loading'
          /\ IF m.res = "auth"
               THEN showSignInModal' /\ error' = ""
               ELSE error' = "message"]_vars

\* this step is a call of initiateOAuthFlow
InitiateCalled == nFlows' # nFlows

\* C19: initiateOAuthFlow is a no-op when any of client_id, auth_url or
\* redirect_uri is not configured: the call writes nothing to sessionStorage
\* or localStorage, form values given or not, and starts no redirect; so with
\* such a configuration no verifier or state is ever stored and the browser
\* stays on the page.
C19_UnconfiguredIsNoOp ==
  /\ [][(InitiateCalled /\ (\/ ~Truthy(env.client_id)
                              \/ ~Truthy(env.auth_url)
                              \/ ~Truthy(env.redirect_uri)))
          => /\ oauth_form_values' = oauth_form_values
             /\ oauth_code_verifier' = oauth_code_verifier
             /\ oauth_state' = oauth_state
             /\ location' = location
             /\ flows' = flows]_vars
  /\ []((\/ ~Truthy(env.client_id)
         \/ ~Truthy(env.auth_url)
         \/ ~Truthy(env.redirect_uri))
        => /\ oauth_code_verifier = Null
           /\ oauth_state = Null
           /\ location = AtPage
           /\ flows = {})

\* initiateOAuthFlow was called with form values while the redirect URI was
\* an empty string, and nothing was stored
C19_Witness ==
  /\ last.op = "initiateOAuthFlow" /\ last.res = "formValues"
  /\ env.client_id = "id" /\ env.auth_url = "url" /\ env.redirect_uri = ""
  /\ oauth_form_values = NoItem
  /\ location = AtPage

\* this step is a call of restoreFormValuesAfterOAuth
RestoreCalled == last'.op = "restoreFormValuesAfterOAuth"

\* C20: saved form values are delivered at most once: the first
\* restoreFormValuesAfterOAuth after saveFormValuesBeforeOAuth(v) returns v
\* and removes the stored entry, a call without a new save returns null, and
\* with nothing stored the call returns null and changes nothing.
C20_RestoreAtMostOnce ==
  [][RestoreCalled =>
       IF ~pending.isNull
         THEN /\ returned'.isNull = FALSE
              /\ returned'.supplementName = pending.supplementName
              /\ returned'.researchFocus = pending.researchFocus
              /\ oauth_form_values' = NoItem
              /\ pending' = NullValues
         ELSE /\ returned' = NullValues
              /\ ~oauth_form_values.present
                   => oauth_form_values' = oauth_form_values]_vars

\* a restore returned the values saved with one field undefined, and the
\* stored entry is gone
C20_Witness ==
  /\ last.op = "restoreFormValuesAfterOAuth" /\ last.res = "values"
  /\ returned = Values("collagen", Undefined)
  /\ oauth_form_values = NoItem
  /\ pending.isNull


\* C14: sign-in is gated by the mode flag. In hosted mode a submit with no
\* signed-in user opens the sign-in prompt and sends no creation request. In
\* self-hosted mode a submit never asks for a user and always sends the
\* creation request, and the page load neither loads a user nor handles an
\* OAuth return: the user stays null, the success message stays hidden, and
\* the URL, the stored profile, the saved form values and the form are left
\* as they were.
C14_SignInGatedByMode ==
  /\ [][(last'.op \in {"submitSignIn", "submitRequest"}
           /\ ~isSelfHosted /\ user = Null)
          => /\ last'.op = "submitSignIn"
             /\ showSignInModal'
             /\ net' = net /\ nCreates' = nCreates]_vars
  /\ [][(last'.op \in {"submitSignIn", "submitRequest"} /\ isSelfHosted)
          => /\ last'.op = "submitRequest"
             /\ showSignInModal' = showSignInModal
             /\ nCreates' = nCreates + 1
             /\ \E m \in net' \ net : m.k = "create"]_vars
  /\ [](isSelfHosted => user = Null /\ ~showAuthSuccess)
  /\ [][(isSelfHosted /\ last'.op = "pageLoad")
          => UNCHANGED << user, showAuthSuccess, searchParams, valyu_user,
                          valyu_access_token, oauth_form_values,
                          supplementName, researchFocus >>]_vars

\* a self-hosted page was loaded on a URL carrying auth=success, over a stored
\* profile and saved form values, and a creation request was sent with no
\* user
C14_Witness ==
  /\ isSelfHosted /\ mounted /\ user = Null
  /\ last.op = "submitRequest"
  /\ searchParams = "success"
  /\ valyu_user = UserProfile
  /\ oauth_form_values.present
  /\ \E m \in net : m.k = "create"

\* C30: a creation request whose JSON body has no supplementName or an empty
\* one, and which in hosted mode carries a bearer token, is answered 400 with
\* no upstream call; the upstream call is made only for requests that passed
\* both the credential check and the supplementName check, and a success
\* answer is given only after that call.
C30_MissingNameRejected ==
  Answered =>
    /\ (/\ request.body.json
        /\ request.body.supplementName \in {Undefined, ""}
        /\ isSelfHosted \/ HasBearerToken)
         => /\ response.status = 400
            /\ response.error = << "Supplement name is required" >>
            /\ ~response.called
            /\ ~response.success
    /\ response.called
         => /\ isSelfHosted \/ HasBearerToken
            /\ HasSupplementName
    /\ response.success => response.called

\* hosted mode: a request with a bearer token and a JSON body without a
\* supplement name was answered 400
C30_Witness ==
  /\ Answered /\ ~isSelfHosted
  /\ request.authorization = Bearer(Token)
  /\ request.body.json /\ request.body.supplementName = Undefined
  /\ response.status = 400
  /\ ~response.called

\* C23: the displayed progress percentage is round(100 * current_step /
\* total_steps), a half rounding up as Math.round does: it is 30 for
\* {current_step: 3, total_steps: 10} and 20 for {current_step: 1,
\* total_steps: 5}, and for every payload with 0 <= current_step <=
\* total_steps and total_steps > 0 it is an integer in 0..100.
C23_PercentIsRounded ==
  percentShown.shown =>
    LET c == progress.current_step
        t == progress.total_steps
        shown == percentShown.percent
    IN /\ shown \in 0..100
       /\ (2 * shown - 1) * t <= 200 * c
       /\ 200 * c < (2 * shown + 1) * t
       /\ progress = Progress(3, 10) => shown = 30
       /\ progress = Progress(1, 5) => shown = 20

\* a status request for a task whose cancellation was requested is sent in
\* this step
StatusSentForCancelled ==
  \E m \in net' \ net : m.k = "status" /\ m.task \in cancelRequested

C25_CancelledAnswerNoEffect ==
  [][(cancelledRef /\ PollDelivered)
       => UNCHANGED << analysisResult, isAnalyzing, currentTaskId,
                       isCancelling, cancelledRef, pollIntervalRef, timers,
                       valyu_access_token, valyu_user, user, showSignInModal,
                       loading, error >>]_vars

\* C26: within one polling session the exposed progress never goes
\* backwards: while the snapshot stays with one task and shows it queued or
\* running, its current_step does not decrease, whatever the order in which
\* the answers of overlapping status checks arrive (the service's
\* current_step of an unfinished task only increases).
C26_ProgressMonotone ==
  [][(/\ analysisResult.task # NoTask
      /\ analysisResult'.task = analysisResult.task
      /\ analysisResult.status \in {"queued", "running"}
      /\ analysisResult'.status \in {"queued", "running"})
       => analysisResult'.step >= analysisResult.step]_vars

\* C27: no poll timer is ever orphaned: in every state at most one interval
\* timer exists and it is the one held in the handle pollIntervalRef, and no
\* timer is live once the cancel request has settled, a terminal status has
\* been applied, reset has run or the component has been unmounted.
C27_NoOrphanTimer ==
  /\ [](\A tm \in timers : tm = pollIntervalRef)
  /\ [](Cardinality(timers) <= 1)
  /\ [][(last' # last
          /\ \/ last'.op \in {"cancelSettled", "handleReset",
                               "cancelWithoutTask", "unmount"}
             \/ (last'.op = "pollApplied"
                   /\ IsTerminalStatus(analysisResult'.status)))
          => timers' = {}]_vars
  /\ [](~mounted => timers = {})

\* C28: after a reset without cancel (New Research) the controller stays
\* Idle, with an empty snapshot, until the next task is created: the answer
\* to a status check that was in flight at the reset does not repopulate the
\* snapshot. A controller that is Idle with the cancellation flag clear and a
\* status answer in flight is one that was reset so.
C28_ResetStaysIdle ==
  [][(Idle /\ ~cancelledRef /\ PollDelivered) => Idle']_vars

\* task t was created after a cancellation and is the one being polled: no
\* cancel or reset has touched it
PolledAfterCancel(t) ==
  /\ cancelRequested # {} /\ t \notin cancelRequested
  /\ currentTaskId = t
  /\ ~cancelledRef

\* C29: a cancellation does not poison later tasks. handleTaskCreated clears
\* the cancellation flag and sends the new task's immediate status check;
\* while the flag is clear every tick sends a check and every OK answer is
\* applied; and a task created after a cancellation that the service
\* completes is eventually exposed as completed, unless the user cancels or
\* resets it first (or the status requests of the run are used up).
C29_CancelDoesNotPoison ==
  /\ [][(last'.op = "handleTaskCreated" /\ last' # last)
          => /\ ~cancelledRef'
             /\ \E m \in net' \ net : m.k = "status" /\ m.task = last'.task]_vars
  /\ [][(~cancelledRef /\ last' # last /\ last'.op = "tickSkipped") => FALSE]_vars
  /\ [][(~cancelledRef /\ PollDelivered /\ last'.res = "ok")
          => last'.op = "pollApplied"]_vars
  /\ \A t \in TaskIds :
       (PolledAfterCancel(t) /\ tasks[t].status = "completed")
         ~> \/ t \in terminalApplied
            \/ currentTaskId # t \/ cancelledRef
            \/ nPolls = MaxPolls

\* C21: the form values saved by a sign-in attempt live only across the
\* redirect round trip: when the page is loaded again afterwards, in hosted
\* mode, they are consumed and deleted from durable storage whether or not
\* the sign-in succeeded, so that no later return to the page can restore
\* them. The page loads below start over the storage a sign-in attempt left.
C21_FormValuesConsumedOnReturn ==
  [][(last'.op = "pageLoad" /\ ~isSelfHosted /\ oauth_form_values.present)
       => /\ oauth_form_values' = NoItem
          /\ pending' = NullValues]_vars

\* the values durable storage (localStorage) holds
DurableValues ==
  {valyu_access_token, valyu_user}
  \cup {oauth_form_values.text[i][2] : i \in 1..Len(oauth_form_values.text)}

\* C22: when initiateOAuthFlow issues its redirect, the state needed after
\* the redirect is already outside the page: the code verifier and the state
\* token are in sessionStorage, the redirect URL carries that state and the
\* challenge of that verifier, and the form values given to the call are in
\* localStorage; the verifier and the state are never in localStorage.
C22_ExternalisedAtRedirect ==
  /\ [][(last'.op = "redirect" /\ flows' # flows)
          => /\ location'.at = "authorize"
             /\ oauth_code_verifier' \in Verifiers
             /\ oauth_state' \in Verifiers
             /\ location'.state = oauth_state'
             /\ location'.code_challenge
                  = generateCodeChallenge(oauth_code_verifier')
             /\ oauth_form_values'.present
             /\ ~pending'.isNull
             /\ JSONparse(oauth_form_values'.text) = pending']_vars
  /\ [](DurableValues \cap Verifiers = {})
  /\ [](location.at = "authorize"
          => /\ location.state = oauth_state
             /\ oauth_form_values.present)

\* the sign-in modal started a flow with the form's values and the redirect
\* was issued
C22_Witness ==
  /\ last.op = "redirect"
  /\ location.at = "authorize"
  /\ location.state = oauth_state
  /\ oauth_form_values = Item(JSONstringify(Values("collagen", "sleep")))

====
